---- MODULE Spec2Model ----
(***************************************************************************)
(* Layout engine of the styled QR generator (qrCodeGen.py): one click of a *)
(* "Generate" button runs render_and_download, which calls                 *)
(* generateStyledQrFixedFill: module-size search, reserve square, dot      *)
(* painter, logo compositor.                                               *)
(***************************************************************************)
EXTENDS Integers, FiniteSets, Sequences, TLC

VARIABLES ui, mat, pc, centerImage, res_override, padArg, n, modulePx,
          marginPerSide, res_modules, res_start, res_end, dots, logo_size,
          res_w, res_x, posX

vars == <<ui, mat, pc, centerImage, res_override, padArg, n, modulePx,
          marginPerSide, res_modules, res_start, res_end, dots, logo_size,
          res_w, res_x, posX>>

(* ---------------------------- bounds ----------------------------------- *)

\* QR versions 1..MaxVersion: the matrix side is 17 + 4 * version.
MaxVersion == 2

\* The module-size search is explored for targetPx = 200 + 10k, k in 0..MaxTargetIdx.
MaxTargetIdx == 60

(* ----------------------- program constants ----------------------------- *)

TargetPxMin == 200
TargetPxStep == 10
SymbolPxGoalMin == 100
SymbolPxGoalStep == 5
MinModulePxLo == 1
MinModulePxHi == 10
QuietModulesMax == 8
PaddingMax == 8
ReserveModulesMax == 200
FinderSide == 7

(* ------------------------- pure helpers -------------------------------- *)

Max(a, b) == IF a >= b THEN a ELSE b

Min(a, b) == IF a <= b THEN a ELSE b

\* Python's None for the optional reserveModules argument; an int v is <<v>>.
None == << >>

Some(v) == <<v>>

\* mat[row][col] of the encoder's matrix: the encoder is external, the
\* matrix is an input; two contents are enumerated.
Mat(m, row, col) ==
    IF m.kind = "dark" THEN TRUE ELSE (row + col) % 2 = 0

Cells(size) == (0 .. size - 1) \X (0 .. size - 1)

IsInFinderSymmetric(row, col, size) ==
    \/ (0 <= row /\ row < FinderSide) /\ (0 <= col /\ col < FinderSide)
    \/ (0 <= row /\ row < FinderSide) /\ (size - FinderSide <= col /\ col < size)
    \/ (size - FinderSide <= row /\ row < size) /\ (0 <= col /\ col < FinderSide)
    \/ (size - FinderSide <= row /\ row < size) /\ (size - FinderSide <= col /\ col < size)

_isInFinder(row, col, size) ==
    LET inTL == (0 <= row /\ row < FinderSide) /\ (0 <= col /\ col < FinderSide)
        inTR == (0 <= row /\ row < FinderSide) /\ (size - FinderSide <= col /\ col < size)
        inBL == (size - FinderSide <= row /\ row < size) /\ (0 <= col /\ col < FinderSide)
    IN  inTL \/ inTR \/ inBL

(* ---------------- module-size search (lines 102-113) ------------------- *)

StartWithoutFloor(minPx, goal, size) == goal \div size

StartModulePx(minPx, goal, size) == Max(minPx, goal \div size)

MarginFor(target, m, size) == (target - m * size) \div 2

QuietZoneOk(margin, quiet, m) == margin >= quiet * m

DecrementByTwo(m) == m - 2

Decrement(m) == m - 1

BelowMinimumOffByOne(m, minPx) == m <= minPx

BelowMinimum(m, minPx) == m < minPx

(* ---------------- render_and_download (lines 223-253) ------------------ *)

buildCenterImage(uploaded) == uploaded = "png"

ResOverride(useReserve, reserveModules) ==
    IF useReserve /\ reserveModules = 0
    THEN None
    ELSE IF useReserve THEN Some(reserveModules) ELSE Some(0)

PaddingArg(useReserve, padding) == IF useReserve THEN padding ELSE 0

(* ---------------- reserve square (lines 127-146) ----------------------- *)

\* max(1, int(targetPx * centerScale)): centerScale is pct / 100 as a
\* double; when the exact product is an integer the double product can
\* fall just below it, and int() then truncates one lower (loss = 1).
LogoPx(target, pct, loss) == Max(1, (target * pct) \div 100 - loss)

FloorDiv(a, b) == a \div b

CeilDiv(a, b) == -((-a) \div b)

ComputedReserveUnclamped(image, size, logoPx, pad, m) ==
    IF image THEN Max(0, CeilDiv(logoPx + 2 * (pad * m), m)) ELSE 0

ComputedReserveIgnoringLogo(image, size, logoPx, pad, m) ==
    Max(0, Min(size, CeilDiv(logoPx + 2 * (pad * m), m)))

ComputedReserve(image, size, logoPx, pad, m) ==
    IF image
    THEN Max(0, Min(size, CeilDiv(logoPx + 2 * (pad * m), m)))
    ELSE 0

ApplyOverride(res, override, size) ==
    IF override = None
    THEN res
    ELSE Max(res, Min(size, override[1]))

ResStart(size, res) == IF res > 0 THEN (size - res) \div 2 ELSE -1

ResEnd(size, res) == IF res > 0 THEN ResStart(size, res) + res - 1 ELSE -1

(* ---------------- dot painter (lines 148-163) -------------------------- *)

InReservedRowsOnly(row, col, res, rs, re) ==
    res > 0 /\ (rs <= row /\ row <= re)

InReserved(row, col, res, rs, re) ==
    res > 0 /\ (rs <= row /\ row <= re) /\ (rs <= col /\ col <= re)

DrawsDot(m, row, col, size, res, rs, re) ==
    IF ~Mat(m, row, col) THEN FALSE
    ELSE IF _isInFinder(row, col, size) THEN FALSE
    ELSE IF InReserved(row, col, res, rs, re) THEN FALSE
    ELSE TRUE

PaintedDots(m, size, res, rs, re) ==
    {c \in Cells(size) : DrawsDot(m, c[1], c[2], size, res, rs, re)}

(* ---------------- inputs ------------------------------------------------ *)

Sizes == {17 + 4 * v : v \in 1 .. MaxVersion}

Matrices == [kind : {"dark", "checker"}, size : Sizes]

Goals(target) ==
    {g \in {SymbolPxGoalMin + SymbolPxGoalStep * j :
                j \in 0 .. ((target - SymbolPxGoalMin) \div SymbolPxGoalStep)} :
        g <= target}

\* Float loss is possible only where the exact product is an integer.
Losses(target, pct) == IF (target * pct) % 100 = 0 THEN {0, 1} ELSE {0}

SolveTargets == {TargetPxMin + TargetPxStep * k : k \in 0 .. MaxTargetIdx}

RenderTargets == {200, 250}

RenderGoals == {100, 200}

RenderMinModulePx == {3, 10}

RenderQuiet == {0, 4}

RenderScales == {5, 20, 25, 40}

RenderReserveModules == {0, 3, 10, ReserveModulesMax}

RenderPaddings == {0, 1, PaddingMax}

Widgets(target, goal, minPx, quiet, up, pct, loss, useRes, resMods, pad) ==
    [targetPx |-> target, symbolPxGoal |-> goal, minModulePx |-> minPx,
     requiredQuietModules |-> quiet, uploaded |-> up, centerScale |-> pct,
     fpLoss |-> loss, useReserve |-> useRes, reserveModules |-> resMods,
     reservePaddingModules |-> pad]

Locals ==
    /\ pc = "idle"
    /\ centerImage = FALSE
    /\ res_override = None
    /\ padArg = 0
    /\ n = 0
    /\ modulePx = 0
    /\ marginPerSide = 0
    /\ res_modules = 0
    /\ res_start = -1
    /\ res_end = -1
    /\ dots = {}
    /\ logo_size = 0
    /\ res_w = 0
    /\ res_x = 0
    /\ posX = 0

\* A button click with the sidebar in any of the enumerated settings.
Init ==
    /\ \E target \in RenderTargets, goal \in RenderGoals,
          minPx \in RenderMinModulePx, quiet \in RenderQuiet,
          up \in {"none", "png", "corrupt"}, pct \in RenderScales,
          useRes \in BOOLEAN, resMods \in RenderReserveModules,
          pad \in RenderPaddings :
          \E loss \in Losses(target, pct) :
             ui = Widgets(target, goal, minPx, quiet, up, pct, loss,
                          useRes, resMods, pad)
    /\ mat \in Matrices
    /\ Locals

\* The geometry sliders over their ranges, the rest at its defaults.
InitSolve ==
    /\ \E target \in SolveTargets :
          \E goal \in Goals(target), minPx \in MinModulePxLo .. MinModulePxHi,
             quiet \in 0 .. QuietModulesMax :
             ui = Widgets(target, goal, minPx, quiet, "none", 20, 0,
                          TRUE, 0, 1)
    /\ mat \in {m \in Matrices : m.kind = "dark"}
    /\ Locals

(* ---------------- actions ----------------------------------------------- *)

\* render_and_download up to the first test of the search loop.
RenderAndDownload ==
    /\ pc = "idle"
    /\ centerImage' = buildCenterImage(ui.uploaded)
    /\ res_override' = ResOverride(ui.useReserve, ui.reserveModules)
    /\ padArg' = PaddingArg(ui.useReserve, ui.reservePaddingModules)
    /\ n' = mat.size
    /\ modulePx' = StartModulePx(ui.minModulePx, ui.symbolPxGoal, mat.size)
    /\ pc' = "loop"
    /\ UNCHANGED <<ui, mat, marginPerSide, res_modules, res_start, res_end,
                   dots, logo_size, res_w, res_x, posX>>

\* The quiet-zone test passes: break, then lines 112-113.
LoopBreak ==
    /\ pc = "loop"
    /\ QuietZoneOk(MarginFor(ui.targetPx, modulePx, n),
                   ui.requiredQuietModules, modulePx)
    /\ marginPerSide' = MarginFor(ui.targetPx, modulePx, n)
    /\ pc' = "reserve"
    /\ UNCHANGED <<ui, mat, centerImage, res_override, padArg, n, modulePx,
                   res_modules, res_start, res_end, dots, logo_size, res_w,
                   res_x, posX>>

\* The test fails and the decremented size is still allowed.
LoopDecrement ==
    /\ pc = "loop"
    /\ ~QuietZoneOk(MarginFor(ui.targetPx, modulePx, n),
                    ui.requiredQuietModules, modulePx)
    /\ ~BelowMinimum(Decrement(modulePx), ui.minModulePx)
    /\ marginPerSide' = MarginFor(ui.targetPx, modulePx, n)
    /\ modulePx' = Decrement(modulePx)
    /\ UNCHANGED <<ui, mat, pc, centerImage, res_override, padArg, n,
                   res_modules, res_start, res_end, dots, logo_size, res_w,
                   res_x, posX>>

\* The test fails and the decremented size is below the minimum:
\* ValueError, caught by render_and_download (st.error).
LoopRaise ==
    /\ pc = "loop"
    /\ ~QuietZoneOk(MarginFor(ui.targetPx, modulePx, n),
                    ui.requiredQuietModules, modulePx)
    /\ BelowMinimum(Decrement(modulePx), ui.minModulePx)
    /\ marginPerSide' = MarginFor(ui.targetPx, modulePx, n)
    /\ modulePx' = Decrement(modulePx)
    /\ pc' = "error"
    /\ UNCHANGED <<ui, mat, centerImage, res_override, padArg, n,
                   res_modules, res_start, res_end, dots, logo_size, res_w,
                   res_x, posX>>

\* Lines 127-146: the reserved square in module coordinates.
Reserve ==
    /\ pc = "reserve"
    /\ LET computed == ComputedReserve(centerImage, n,
                           LogoPx(ui.targetPx, ui.centerScale, ui.fpLoss),
                           padArg, modulePx)
           res == ApplyOverride(computed, res_override, n)
       IN  /\ res_modules' = res
           /\ res_start' = ResStart(n, res)
           /\ res_end' = ResEnd(n, res)
    /\ pc' = "paint"
    /\ UNCHANGED <<ui, mat, centerImage, res_override, padArg, n, modulePx,
                   marginPerSide, dots, logo_size, res_w, res_x, posX>>

\* Lines 148-163: both loops of the painter.
PaintDots ==
    /\ pc = "paint"
    /\ dots' = PaintedDots(mat, n, res_modules, res_start, res_end)
    /\ pc' = "logo"
    /\ UNCHANGED <<ui, mat, centerImage, res_override, padArg, n, modulePx,
                   marginPerSide, res_modules, res_start, res_end, logo_size,
                   res_w, res_x, posX>>

\* Lines 165-190: backdrop rectangle and logo position, then return.
CompositeLogo ==
    /\ pc = "logo"
    /\ IF centerImage
       THEN LET size == LogoPx(ui.targetPx, ui.centerScale, ui.fpLoss)
                total == Min(Max(size + 2 * (padArg * modulePx), 0), ui.targetPx)
                w == IF res_modules > 0 THEN total ELSE size
            IN  /\ logo_size' = size
                /\ res_w' = w
                /\ res_x' = (ui.targetPx - w) \div 2
                /\ posX' = (ui.targetPx - size) \div 2
       ELSE UNCHANGED <<logo_size, res_w, res_x, posX>>
    /\ pc' = "done"
    /\ UNCHANGED <<ui, mat, centerImage, res_override, padArg, n, modulePx,
                   marginPerSide, res_modules, res_start, res_end, dots>>

Next ==
    \/ RenderAndDownload
    \/ LoopBreak
    \/ LoopDecrement
    \/ LoopRaise
    \/ Reserve
    \/ PaintDots
    \/ CompositeLogo

NextSolve ==
    \/ RenderAndDownload
    \/ LoopBreak
    \/ LoopDecrement
    \/ LoopRaise

Spec == Init /\ [][Next]_vars

SpecSolve == InitSolve /\ [][NextSolve]_vars

(* ======================= properties ==================================== *)

AfterSearch == {"reserve", "paint", "logo", "done"}

AfterReserve == {"paint", "logo", "done"}

\* The quiet-zone test of a candidate module size, written out.
Fits(m) ==
    (ui.targetPx - m * n) \div 2 >= ui.requiredQuietModules * m

\* modulePx is the largest size <= cap that passes the quiet-zone test.
LargestFittingUpTo(cap) ==
    /\ modulePx <= cap
    /\ Fits(modulePx)
    /\ \A m \in (modulePx + 1) .. cap : ~Fits(m)

\* C1: whenever the module-size search ends without raising, the geometry
\* satisfies modulePx >= minModulePx, marginPerSide >= requiredQuietModules
\* * modulePx and 2 * marginPerSide + modulePx * N <= targetPx.
C1_GeometryConstraints ==
    pc \in AfterSearch =>
        /\ modulePx >= ui.minModulePx
        /\ marginPerSide >= ui.requiredQuietModules * modulePx
        /\ 2 * marginPerSide + modulePx * n <= ui.targetPx

\* The search succeeded after at least one decrement, with a quiet zone asked.
C1_Witness ==
    /\ pc = "reserve"
    /\ ui.requiredQuietModules > 0
    /\ modulePx < ui.symbolPxGoal \div n
    /\ modulePx > ui.minModulePx

\* C2: the search raises if and only if no integer modulePx >= minModulePx
\* passes the quiet-zone test (no size above targetPx can pass: its margin
\* is negative); otherwise it returns a geometry.
C2_RaisesIffNoSolution ==
    pc \in AfterSearch \cup {"error"} =>
        ((pc = "error") <=> ~(\E m \in ui.minModulePx .. ui.targetPx : Fits(m)))

\* The search raised after walking down from a start above the minimum.
C2_Witness ==
    /\ pc = "error"
    /\ ui.symbolPxGoal \div n > ui.minModulePx + 1

\* C3 (as claimed): on success modulePx is the largest integer
\* <= floor(symbolPxGoal / N) that passes the quiet-zone test.
C3_LargestBelowGoalQuotient ==
    pc \in AfterSearch => LargestFittingUpTo(ui.symbolPxGoal \div n)

\* C3 (amended): on success modulePx is the largest integer
\* <= max(minModulePx, floor(symbolPxGoal / N)) that passes the quiet-zone
\* test.
C3_LargestBelowStart ==
    pc \in AfterSearch =>
        LargestFittingUpTo(IF ui.minModulePx >= ui.symbolPxGoal \div n
                           THEN ui.minModulePx
                           ELSE ui.symbolPxGoal \div n)

\* The search succeeded at a minimum that exceeds floor(symbolPxGoal / N).
C3_Witness ==
    /\ pc = "reserve"
    /\ ui.minModulePx > ui.symbolPxGoal \div n
    /\ modulePx = ui.minModulePx

TopLeftBlock == (0 .. 6) \X (0 .. 6)

TopRightBlock == (0 .. 6) \X ((n - 7) .. (n - 1))

BottomLeftBlock == ((n - 7) .. (n - 1)) \X (0 .. 6)

BottomRightBlock == ((n - 7) .. (n - 1)) \X ((n - 7) .. (n - 1))

FinderCells == {c \in Cells(n) : _isInFinder(c[1], c[2], n)}

\* C4: for N >= 21, _isInFinder is true exactly on the three 7x7 blocks at
\* (0,0), (0,N-7) and (N-7,0), which are pairwise disjoint (147 cells), and
\* false on the whole bottom-right 7x7 block.
C4_FinderBlocks ==
    (pc = "logo" /\ n >= 21) =>
        /\ FinderCells = TopLeftBlock \cup TopRightBlock \cup BottomLeftBlock
        /\ TopLeftBlock \cap TopRightBlock = {}
        /\ TopLeftBlock \cap BottomLeftBlock = {}
        /\ TopRightBlock \cap BottomLeftBlock = {}
        /\ Cardinality(FinderCells) = 147
        /\ FinderCells \cap BottomRightBlock = {}

\* An all-dark matrix was painted: the bottom-right block got its dots
\* (nothing reserved there) and the three finder blocks got none.
C4_Witness ==
    /\ pc = "done"
    /\ mat.kind = "dark"
    /\ n >= 21
    /\ res_modules = 0
    /\ BottomRightBlock \subseteq dots
    /\ dots \cap (TopLeftBlock \cup TopRightBlock \cup BottomLeftBlock) = {}

\* override clamped to [0, N].
Clamped(v) == IF v < 0 THEN 0 ELSE IF v > n THEN n ELSE v

\* C5 (as claimed): a non-zero reserveModules override fixes the reserved
\* square's side to the override clamped to [0, N], also when it is smaller
\* than the count computed from the logo.
C5_OverrideWins ==
    (pc \in AfterReserve /\ res_override # None /\ res_override # Some(0)) =>
        res_modules = Clamped(res_override[1])

DarkNonFinder == {c \in Cells(n) : Mat(mat, c[1], c[2])} \ FinderCells

\* C6 (as claimed): with no logo the reserve region is absent for every
\* override and padding, and no dark non-finder module is skipped.
C6_NoLogoNoRegion ==
    (pc = "done" /\ ~centerImage) =>
        /\ res_modules = 0
        /\ res_start = -1
        /\ res_end = -1
        /\ dots = DarkNonFinder

\* C6 (amended): with no logo and the override absent or zero, the reserve
\* region is absent for every padding, and no dark non-finder module is
\* skipped.
C6_NoLogoNoOverrideNoRegion ==
    (pc = "done" /\ ~centerImage /\ res_override \in {None, Some(0)}) =>
        /\ res_modules = 0
        /\ res_start = -1
        /\ res_end = -1
        /\ dots = DarkNonFinder

\* No logo, no override, the largest padding, reservation switched on.
C6_Witness ==
    /\ pc = "done"
    /\ ~centerImage
    /\ res_override = None
    /\ padArg = PaddingMax
    /\ dots = DarkNonFinder
    /\ dots # {}

\* C7: whenever the reserve count is > 0 it is within [1, N] and the region
\* satisfies 0 <= res_start <= res_end < N, res_start = floor((N - count)/2)
\* and res_end = res_start + count - 1.
C7_RegionInsideMatrix ==
    (pc \in AfterReserve /\ res_modules > 0) =>
        /\ 1 <= res_modules /\ res_modules <= n
        /\ 0 <= res_start
        /\ res_start <= res_end
        /\ res_end < n
        /\ res_start = (n - res_modules) \div 2
        /\ res_end = res_start + res_modules - 1

\* The logo's count and the override both exceed N: clamped to the matrix.
C7_Witness ==
    /\ pc = "done"
    /\ centerImage
    /\ logo_size + 2 * (padArg * modulePx) > n * modulePx
    /\ res_override # None /\ res_override[1] > n
    /\ res_modules = n
    /\ res_start = 0
    /\ res_end = n - 1

RegionPresent == res_modules > 0

InRegion(c) ==
    /\ res_start <= c[1] /\ c[1] <= res_end
    /\ res_start <= c[2] /\ c[2] <= res_end

\* C8: the painter draws a dot for a cell if and only if the module is dark,
\* the cell is not a finder cell and the cell is not inside the reserve
\* region when one is present; so no dot lies in the region or in a finder
\* block.
C8_DotIffDarkDataUnreserved ==
    pc \in {"logo", "done"} =>
        /\ \A c \in Cells(n) :
              c \in dots <=>
                 /\ Mat(mat, c[1], c[2])
                 /\ c \notin TopLeftBlock \cup TopRightBlock \cup BottomLeftBlock
                 /\ ~(RegionPresent /\ InRegion(c))
        /\ dots \subseteq Cells(n)
        /\ RegionPresent => \A c \in dots : ~InRegion(c)

\* An all-dark matrix painted around a region strictly inside it: dots exist
\* left of the region in its rows, none inside.
C8_Witness ==
    /\ pc = "done"
    /\ mat.kind = "dark"
    /\ res_modules > 0
    /\ res_start > 0
    /\ <<res_start, res_start - 1>> \in dots
    /\ <<res_start, res_start>> \notin dots

\* C9 (as claimed): with reservation disabled (useReserve false) the render
\* skips no module: every dark non-finder module gets a dot, logo or not.
C9_DisabledSkipsNothing ==
    (pc = "done" /\ ~ui.useReserve) => dots = DarkNonFinder

\* The backdrop square of the logo plus padding, in pixels, lies inside the
\* pixel extent of the reserve region.
SquareInsideRegion ==
    /\ res_w = logo_size + 2 * (padArg * modulePx)
    /\ res_x = (ui.targetPx - res_w) \div 2
    /\ marginPerSide + res_start * modulePx <= res_x
    /\ res_x + res_w <= marginPerSide + (res_end + 1) * modulePx

NotClampedByN ==
    -((-(logo_size + 2 * (padArg * modulePx))) \div modulePx) <= n

\* C10 (as claimed): with a logo and a count not clamped by N, the centred
\* pixel square of logo plus padding lies inside the pixel extent of the
\* reserve region, for every padding and every parity of N - count.
C10_SquareInsideRegion ==
    (pc = "done" /\ centerImage /\ NotClampedByN) => SquareInsideRegion

\* C10 (amended): the same, whenever N - count is even.
C10_SquareInsideRegionEvenGap ==
    (pc = "done" /\ centerImage /\ NotClampedByN
        /\ (n - res_modules) % 2 = 0) => SquareInsideRegion

\* A logo with the largest padding, an odd canvas remainder and an even gap.
C10_Witness ==
    /\ pc = "done"
    /\ centerImage
    /\ NotClampedByN
    /\ (n - res_modules) % 2 = 0
    /\ padArg > 0
    /\ (ui.targetPx - modulePx * n) % 2 = 1
    /\ res_modules * modulePx > res_w

====
